---- MODULE Spec2Model ----
(***************************************************************************)
(* Model of ddb_spatial_tools.py: the DuckDB catalog as seen by            *)
(* read_points_from_parquet_file and create_vector_grid.                   *)
(*                                                                         *)
(* Coordinates and the grid size are integers, so all arithmetic is exact: *)
(* the binary floating-point rounding of numpy.arange is not represented.  *)
(* A table is represented by the set of points of the geometry column the  *)
(* grid is built from.                                                     *)
(***************************************************************************)
EXTENDS Integers, Sequences, FiniteSets, TLC

\* ------------------------------------------------------------- bounds
\* Largest coordinate of a point in a table.
MaxCoord == 10
\* The low corner of a table's extent lies in (-MaxLow)..0 on each axis.
MaxLow == 1
\* grid_size ranges over (-MaxNegSize)..MaxGridSize.
MaxGridSize == 5
MaxNegSize == 2
\* A parquet file read by read_points_from_parquet_file holds 0..MaxFileRows points.
MaxFileRows == 2

VARIABLES
    tables,   \* the DuckDB catalog: table name -> [exists, rows]
    grid,     \* the outcome of the last create_vector_grid call, with its locals
    last      \* the outcome of the last read_points_from_parquet_file call

vars == <<tables, grid, last>>

\* ------------------------------------------------------------- values
TableNames == {"points", "tracks"}
Files == {"a.parquet", "b.parquet"}
CRSCodes == {"esri:102001", "epsg:4326"}
GridSizes == (-MaxNegSize)..MaxGridSize
Coord == (-MaxLow)..MaxCoord
Low == (-MaxLow)..0

NoTable == [exists |-> FALSE, rows |-> {}]
Table(rows) == [exists |-> TRUE, rows |-> rows]

\* Point sets with every bounding box inside Coord x Coord whose low corner is in Low x Low.
GridRowSets ==
    {{}} \cup {{p, q} : p \in Low \X Low, q \in Coord \X Coord}

\* ------------------------------------------------------------- create_vector_grid
ST_X(p) == p[1]
ST_Y(p) == p[2]

\* SELECT MIN(...) / SELECT MAX(...) over a non-empty column.
Min(S) == CHOOSE m \in S : \A v \in S : m <= v
Max(S) == CHOOSE m \in S : \A v \in S : m >= v

\* ceil(a / b) for b # 0.
CeilDiv(a, b) ==
    IF b > 0 THEN -((-a) \div b) ELSE -(a \div (-b))

\* Mutant of ArangeLen: the length rounded down instead of up.
ArangeLenFloor(start, stop, step) ==
    LET n == IF step > 0 THEN (stop - start) \div step
             ELSE (start - stop) \div (-step)
    IN  IF n > 0 THEN n ELSE 0

\* len(np.arange(start, stop, step)) = max(0, ceil((stop - start) / step)), step # 0.
ArangeLen(start, stop, step) ==
    LET n == CeilDiv(stop - start, step)
    IN  IF n > 0 THEN n ELSE 0

\* np.arange(start, stop, step) as a list, step # 0.
Arange(start, stop, step) ==
    [i \in 1..ArangeLen(start, stop, step) |-> start + (i - 1) * step]

\* Mutant of GridOrigins: the stop is the upper bound itself.
GridOriginsNoPad(lo, hi, step) ==
    Arange(lo, hi, step)

\* list(np.arange(xmin, xmax + width, width)).
GridOrigins(lo, hi, step) ==
    Arange(lo, hi + step, step)

\* Mutants of AllButLast: nothing dropped; the last two dropped.
KeepAll(s) ==
    s
AllButLastTwo(s) ==
    SubSeq(s, 1, Len(s) - 2)

\* s[:-1]
AllButLast(s) ==
    SubSeq(s, 1, Len(s) - 1)

\* Mutant of Polygon: the cell is one unit too wide.
PolygonWide(x, y, width, height) ==
    << <<x, y>>, <<x + width + 1, y>>, <<x + width + 1, y + height>>, <<x, y + height>> >>

\* Polygon([(x,y), (x+width, y), (x+width, y+height), (x, y+height)])
Polygon(x, y, width, height) ==
    << <<x, y>>, <<x + width, y>>, <<x + width, y + height>>, <<x, y + height>> >>

\* for y in rows[:-1]: polygons.append(Polygon(...)), for one x: the cells appended.
RowLoop(x, ys, width, height) ==
    [i \in 1..Len(ys) |-> Polygon(x, ys[i], width, height)]

\* for x in cols[:-1]: for y in rows[:-1]: ...
RECURSIVE ColLoop(_, _, _, _)
ColLoop(xs, ys, width, height) ==
    IF Len(xs) = 0 THEN <<>>
    ELSE RowLoop(Head(xs), ys, width, height) \o ColLoop(Tail(xs), ys, width, height)

\* Mutant of Polygons: rows in the outer loop, columns in the inner loop.
RECURSIVE RowMajorLoop(_, _, _, _)
RowMajorLoop(xs, ys, width, height) ==
    IF Len(ys) = 0 THEN <<>>
    ELSE [i \in 1..Len(xs) |-> Polygon(xs[i], Head(ys), width, height)]
             \o RowMajorLoop(xs, Tail(ys), width, height)
PolygonsRowMajor(cols, rows, width, height) ==
    RowMajorLoop(AllButLast(cols), AllButLast(rows), width, height)

\* The polygons list after the two nested loops.
Polygons(cols, rows, width, height) ==
    ColLoop(AllButLast(cols), AllButLast(rows), width, height)

NoGrid ==
    [status |-> "none", error |-> "none", ddb_table |-> "", grid_size |-> 0, crs |-> "",
     xmin |-> 0, ymin |-> 0, xmax |-> 0, ymax |-> 0,
     cols |-> <<>>, rows |-> <<>>, polygons |-> <<>>]

\* The call raised before any bound was used.
GridRaised(ddb_table, grid_size, crs_code, error) ==
    [NoGrid EXCEPT !.status = "error", !.error = error, !.ddb_table = ddb_table,
                   !.grid_size = grid_size, !.crs = crs_code]

\* The body of create_vector_grid on the catalog tbls.
GridResult(tbls, ddb_table, grid_size, crs_code) ==
    IF ~tbls[ddb_table].exists
    THEN \* ddb.sql raises: the table does not exist
         GridRaised(ddb_table, grid_size, crs_code, "CatalogException")
    ELSE IF tbls[ddb_table].rows = {}
    THEN \* MIN and MAX of no rows are NULL: np.arange cannot compute a length
         GridRaised(ddb_table, grid_size, crs_code, "NumpyError")
    ELSE LET pts    == tbls[ddb_table].rows
             xmin   == Min({ST_X(p) : p \in pts})
             ymin   == Min({ST_Y(p) : p \in pts})
             xmax   == Max({ST_X(p) : p \in pts})
             ymax   == Max({ST_Y(p) : p \in pts})
             height == grid_size
             width  == grid_size
         IN  IF grid_size = 0
             THEN \* np.arange with a zero step raises
                  [GridRaised(ddb_table, grid_size, crs_code, "NumpyError")
                      EXCEPT !.xmin = xmin, !.ymin = ymin, !.xmax = xmax, !.ymax = ymax]
             ELSE LET cols == GridOrigins(xmin, xmax, width)
                      rows == GridOrigins(ymin, ymax, height)
                  IN  [status |-> "grid", error |-> "none", ddb_table |-> ddb_table,
                       grid_size |-> grid_size, crs |-> crs_code,
                       xmin |-> xmin, ymin |-> ymin, xmax |-> xmax, ymax |-> ymax,
                       cols |-> cols, rows |-> rows,
                       polygons |-> Polygons(cols, rows, width, height)]

create_vector_grid(ddb_table, grid_size, crs_code) ==
    /\ grid' = GridResult(tables, ddb_table, grid_size, crs_code)
    /\ UNCHANGED <<tables, last>>

\* ------------------------------------------------------------- read_points_from_parquet_file
\* What the SELECT over a parquet file yields: the file cannot be read, a geometry
\* of it cannot be converted, or its rows.
FileRowSets == {{<<i, i>> : i \in 1..n} : n \in 0..MaxFileRows}
Sources ==
    {[kind |-> "unreadable", rows |-> {}], [kind |-> "invalid", rows |-> {}]}
        \cup {[kind |-> "ok", rows |-> r] : r \in FileRowSets}

\* What input() may return at the overwrite prompt.
Answers == {"y", "Y", "n", "N", "yes", ""}

\* str.lower() on the answers.
Lower(s) ==
    CASE s = "Y" -> "y"
      [] s = "N" -> "n"
      [] OTHER -> s

NoError == "none"
IOError == "IO Error: No files found that match the pattern"
ConversionError == "Conversion Error: invalid geometry"
TableExistsError == "Catalog Error: Table with this name already exists!"
NoSuchTableError == "Catalog Error: Table with this name does not exist!"

\* Mutant of AlreadyExistsIn: every failure is taken for a name clash.
AnyError(e) ==
    e # NoError

\* 'already exists' in str(e)
AlreadyExistsIn(e) ==
    e = TableExistsError

\* Mutant of OverwriteAccepted: everything but a plain 'n' overwrites.
OverwriteUnlessN(overwrite) ==
    overwrite # "n"

\* overwrite.lower() == 'y'
OverwriteAccepted(overwrite) ==
    Lower(overwrite) = "y"

\* ddb.sql("CREATE TABLE {table_name} AS SELECT ... FROM '{parquet_file}'"):
\* the query is bound first, then the name is entered in the catalog, then rows are read.
CreateTableAs(tbls, table_name, src) ==
    IF src.kind = "unreadable" THEN [err |-> IOError, tables |-> tbls]
    ELSE IF tbls[table_name].exists THEN [err |-> TableExistsError, tables |-> tbls]
    ELSE IF src.kind = "invalid" THEN [err |-> ConversionError, tables |-> tbls]
    ELSE [err |-> NoError, tables |-> [tbls EXCEPT ![table_name] = Table(src.rows)]]

\* ddb.sql("DROP TABLE {table_name}")
DropTable(tbls, table_name) ==
    IF tbls[table_name].exists
    THEN [err |-> NoError, tables |-> [tbls EXCEPT ![table_name] = NoTable]]
    ELSE [err |-> NoSuchTableError, tables |-> tbls]

\* One call, the recursive retry included. ret is the value returned ("True" or
\* "None"), or "raised" when an exception leaves the function; sql lists the
\* statements sent to the engine, err the failure of the first CREATE. The retry
\* reads the same file; a second prompt would need the table to exist again right
\* after its DROP, which a single caller cannot bring about.
RECURSIVE ReadPoints(_, _, _, _)
ReadPoints(tbls, src, table_name, overwrite) ==
    LET c == CreateTableAs(tbls, table_name, src)
    IN  IF c.err = NoError
        THEN [ret |-> "True", tables |-> c.tables, err |-> NoError,
              sql |-> <<"CREATE">>, prompted |-> FALSE, created |-> TRUE]
        ELSE IF AlreadyExistsIn(c.err)
        THEN IF OverwriteAccepted(overwrite)
             THEN LET d == DropTable(tbls, table_name)
                  IN  IF d.err # NoError
                      THEN [ret |-> "raised", tables |-> d.tables, err |-> c.err,
                            sql |-> <<"CREATE", "DROP">>, prompted |-> TRUE,
                            created |-> FALSE]
                      ELSE LET r == ReadPoints(d.tables, src, table_name, overwrite)
                           IN  [ret |-> IF r.ret = "raised" THEN "raised" ELSE "None",
                                tables |-> r.tables, err |-> c.err,
                                sql |-> <<"CREATE", "DROP">> \o r.sql,
                                prompted |-> TRUE, created |-> r.created]
             ELSE [ret |-> "None", tables |-> tbls, err |-> c.err,
                   sql |-> <<"CREATE">>, prompted |-> TRUE, created |-> FALSE]
        ELSE [ret |-> "None", tables |-> tbls, err |-> c.err,
              sql |-> <<"CREATE">>, prompted |-> FALSE, created |-> FALSE]

NoCall ==
    [called |-> FALSE, parquet_file |-> "", table_name |-> "", overwrite |-> "",
     ret |-> "", err |-> NoError, sql |-> <<>>, prompted |-> FALSE, created |-> FALSE,
     before |-> [n \in TableNames |-> NoTable]]

read_points_from_parquet_file(parquet_file, table_name, src, overwrite) ==
    LET r == ReadPoints(tables, src, table_name, overwrite)
    IN  /\ tables' = r.tables
        /\ last' = [called |-> TRUE, parquet_file |-> parquet_file,
                    table_name |-> table_name,
                    overwrite |-> IF r.prompted THEN overwrite ELSE "",
                    ret |-> r.ret, err |-> r.err, sql |-> r.sql,
                    prompted |-> r.prompted, created |-> r.created,
                    before |-> tables]
        /\ UNCHANGED grid

\* ------------------------------------------------------------- specifications
Init ==
    /\ tables = [n \in TableNames |-> NoTable]
    /\ grid = NoGrid
    /\ last = NoCall

ReadPointsStep ==
    \E f \in Files, t \in TableNames, src \in Sources, a \in Answers :
        read_points_from_parquet_file(f, t, src, a)

GridStep ==
    \E t \in TableNames, g \in GridSizes, c \in CRSCodes :
        create_vector_grid(t, g, c)

\* The catalog under read_points_from_parquet_file.
SpecTables == Init /\ [][ReadPointsStep]_vars

\* create_vector_grid over a catalog holding the table "points" with any extent
\* within the bounds, or an empty catalog.
InitGrid ==
    /\ \/ tables = [n \in TableNames |-> NoTable]
       \/ \E r \in GridRowSets :
              tables = [n \in TableNames |-> IF n = "points" THEN Table(r) ELSE NoTable]
    /\ grid = NoGrid
    /\ last = NoCall

SpecGrid == InitGrid /\ [][GridStep]_vars

Next == ReadPointsStep \/ GridStep

Spec == Init /\ [][Next]_vars

\* ------------------------------------------------------------- properties
Range(s) == {s[i] : i \in 1..Len(s)}
Max0(n) == IF n > 0 THEN n ELSE 0
Origin(poly) == poly[1]
Square(x, y, size) ==
    << <<x, y>>, <<x + size, y>>, <<x + size, y + size>>, <<x, y + size>> >>
GridBuilt == grid.status = "grid"

\* The bounds create_vector_grid reads are the extrema of one column, so they are
\* ordered whenever it gets as far as using them.
GridBoundsOrdered ==
    grid.status # "none" => (grid.xmin <= grid.xmax /\ grid.ymin <= grid.ymax)

\* The number of values lo, lo + size, lo + 2*size, ... strictly below hi + size.
OriginsBelow(lo, hi, size) ==
    Cardinality({i \in 0..(hi - lo + 1) : lo + i * size < hi + size})

C2_ColumnMajorOrder ==
    GridBuilt =>
        \A i, j \in 1..Len(grid.polygons) :
            i < j =>
                LET a == Origin(grid.polygons[i])
                    b == Origin(grid.polygons[j])
                IN  \/ a[1] < b[1]
                    \/ (a[1] = b[1] /\ a[2] < b[2])

\* A grid of at least two columns and three rows.
C2_Witness ==
    GridBuilt /\ Len(grid.cols) >= 3 /\ Len(grid.rows) >= 4 /\ Len(grid.polygons) >= 6

\* C4: a call with cell_size <= 0 fails (here: with any error at all) and returns
\* no grid.
C4_NonPositiveSizeFails ==
    (grid.status # "none" /\ grid.grid_size <= 0) => grid.status = "error"

Box0To10(size) ==
    /\ GridBuilt /\ grid.grid_size = size
    /\ grid.xmin = 0 /\ grid.ymin = 0 /\ grid.xmax = 10 /\ grid.ymax = 10

\* C5 as stated: for the box (0, 0, 10, 10) and cell size 5 the origins are
\* [0, 5, 10] on both axes and the grid is the single cell (0,0),(5,0),(5,5),(0,5).
C5_SingleCell ==
    Box0To10(5) =>
        /\ grid.cols = <<0, 5, 10>> /\ grid.rows = <<0, 5, 10>>
        /\ grid.polygons = <<Square(0, 0, 5)>>

\* C5 amended: for the box (0, 0, 10, 10) and cell size 5 the origins are
\* [0, 5, 10] on both axes, the retained origins are [0, 5] x [0, 5], and the grid
\* consists of exactly four cells, at (0,0), (0,5), (5,0), (5,5) in that order.
C5_FourCells ==
    Box0To10(5) =>
        /\ grid.cols = <<0, 5, 10>> /\ grid.rows = <<0, 5, 10>>
        /\ grid.polygons =
               <<Square(0, 0, 5), Square(0, 5, 5), Square(5, 0, 5), Square(5, 5, 5)>>

C5_Witness == Box0To10(5) /\ Len(grid.polygons) > 0

\* C6 as stated: for the box (0, 0, 10, 10) and cell size 4 the grid has exactly
\* 4 cells, with origins [0,4] x [0,4], and no cell reaches beyond x = 8 or y = 8.
C6_UnderCovers ==
    Box0To10(4) =>
        /\ Len(grid.polygons) = 4
        /\ {Origin(c) : c \in Range(grid.polygons)} = {0, 4} \X {0, 4}
        /\ \A c \in Range(grid.polygons) : c[3][1] <= 8 /\ c[3][2] <= 8

\* C6 amended: for the box (0, 0, 10, 10) and cell size 4 the origins are
\* [0, 4, 8, 12] on both axes, the grid has exactly 9 cells, with origins
\* [0,4,8] x [0,4,8], and its cells reach x = 12 and y = 12: dropping the last
\* origin does not under-cover the box.
C6_NineCells ==
    Box0To10(4) =>
        /\ grid.cols = <<0, 4, 8, 12>> /\ grid.rows = <<0, 4, 8, 12>>
        /\ Len(grid.polygons) = 9
        /\ {Origin(c) : c \in Range(grid.polygons)} = {0, 4, 8} \X {0, 4, 8}
        /\ \E c \in Range(grid.polygons) : c[3] = <<12, 12>>
        /\ \A c \in Range(grid.polygons) : c[3][1] <= 12 /\ c[3][2] <= 12

C6_Witness == Box0To10(4) /\ Len(grid.polygons) > 4

\* Two axis-aligned cells overlap in area.
Overlap(a, b) ==
    /\ a[1][1] < b[3][1] /\ b[1][1] < a[3][1]
    /\ a[1][2] < b[3][2] /\ b[1][2] < a[3][2]
Edges(c) == {{c[1], c[2]}, {c[2], c[3]}, {c[3], c[4]}, {c[4], c[1]}}
ShareOneEdge(a, b) == Cardinality(Edges(a) \cap Edges(b)) = 1
NoOverlap ==
    \A i, j \in 1..Len(grid.polygons) :
        i < j => ~Overlap(grid.polygons[i], grid.polygons[j])

C8_ReturnsTrueOrFalse ==
    last.called => last.ret = (IF last.created THEN "True" ELSE "False")

\* C10: a DROP is issued only after the creation failed with the 'already
\* exists' error and the answer was 'y' or 'Y'; after any other answer, and after
\* any other failure, no DROP is issued and the catalog is as it was before.
C10_DropOnlyOnAcceptedOverwrite ==
    last.called =>
        LET accepted == last.err = TableExistsError /\ last.overwrite \in {"y", "Y"}
        IN  /\ "DROP" \in Range(last.sql) => accepted
            /\ (last.err # NoError /\ ~accepted) =>
                   ("DROP" \notin Range(last.sql) /\ tables = last.before)

\* The answer 'Y' to the prompt was followed by the drop and the retry.
C10_Witness ==
    /\ last.called /\ last.overwrite = "Y"
    /\ last.sql = <<"CREATE", "DROP", "CREATE">>
    /\ last.before[last.table_name].exists

====
